---------------------------- MODULE Spec2Model ----------------------------
(***************************************************************************)
(* Model of src/task.rs of sigotorrior: three task stores (ready_tasks,    *)
(* waiting_tasks, completed_tasks), each one file holding a JSON list of   *)
(* {id, description} records, written through a pid-tagged temporary file  *)
(* that is renamed into place, and the lifecycle operations on top of them. *)
(***************************************************************************)
EXTENDS Integers, Sequences, FiniteSets, Bags, TLC

VARIABLES
    fs,      \* the home directory: a function from the paths that exist to their content
    proc,    \* per process: position inside read_tasks / write_tasks and its locals
    last,    \* the operation that finished last (observation only)
    snap,    \* the stores as read just before the last wait() (observation only)
    pre      \* the store files as they were before the last step (observation only)

vars == <<fs, proc, last, snap, pre>>

-----------------------------------------------------------------------------
(* Bounds of the model *)

MaxId == 3          \* ids range over 1..MaxId
MaxInit == 3        \* records of the three stores together in an arbitrary initial content
MaxTasks == 2       \* records Ready and Waiting may hold together when a task is created
MaxCompleted == 2   \* records Completed may hold when a task is completed
NProcs == 2         \* processes of a concurrent run
MaxWrite == 2       \* records of a list handed to write_tasks on its own

Ids == 1..MaxId

Procs == 1..NProcs

\* A description is a sequence of characters; the quote and the backslash are
\* the characters serde_json has to escape.
Chars == {"a", "\"", "\\"}
Descs == {<<"a">>, <<"\"">>}

-----------------------------------------------------------------------------
(* Records *)

ReadyTask(id, description) == [id |-> id, description |-> description]

WaitingTask(id, description) == [id |-> id, description |-> description]

CompletedTask(id, description) == [id |-> id, description |-> description]

from_waiting(waiting_task) == ReadyTask(waiting_task.id, waiting_task.description)

from_ready(ready_task) == WaitingTask(ready_task.id, ready_task.description)

FILE_NAME_READY == "ready_tasks"

FILE_NAME_WAITING == "waiting_tasks"

FILE_NAME_COMPLETED == "completed_tasks"

Stores == {FILE_NAME_READY, FILE_NAME_WAITING, FILE_NAME_COMPLETED}

-----------------------------------------------------------------------------
(* serde_json::to_string of a Vec of records: a document is a sequence of  *)
(* characters; the fixed key literals "id": and "description": are one     *)
(* token each.                                                             *)

DigitChar == <<"0", "1", "2", "3", "4", "5", "6", "7", "8", "9">>

RECURSIVE ser_u32(_)
ser_u32(n) ==
    IF n < 10 THEN <<DigitChar[n + 1]>>
    ELSE ser_u32(n \div 10) \o <<DigitChar[(n % 10) + 1]>>

RECURSIVE escape_quote_only(_)
escape_quote_only(s) ==
    IF s = <<>> THEN <<>>
    ELSE (IF Head(s) = "\"" THEN <<"\\", Head(s)>> ELSE <<Head(s)>>)
         \o escape_quote_only(Tail(s))

RECURSIVE escape(_)
escape(s) ==
    IF s = <<>> THEN <<>>
    ELSE (IF Head(s) \in {"\"", "\\"} THEN <<"\\", Head(s)>> ELSE <<Head(s)>>)
         \o escape(Tail(s))

ser_str(s) == <<"\"">> \o escape(s) \o <<"\"">>

ser_task(t) ==
    <<"{", "\"id\":">> \o ser_u32(t.id) \o <<",", "\"description\":">>
        \o ser_str(t.description) \o <<"}">>

RECURSIVE ser_seq(_)
ser_seq(tasks) ==
    IF tasks = <<>> THEN <<>>
    ELSE IF Len(tasks) = 1 THEN ser_task(tasks[1])
    ELSE ser_task(tasks[1]) \o <<",">> \o ser_seq(Tail(tasks))

to_string(tasks) == <<"[">> \o ser_seq(tasks) \o <<"]">>

-----------------------------------------------------------------------------
(* serde_json::from_str::<Vec<Self>>: a recursive-descent parse of the     *)
(* documents to_string produces; anything else (a truncated document, a    *)
(* mixed one) is an error, on which the caller's unwrap() panics.          *)

ParseErr == [ok |-> FALSE, val |-> <<>>, next |-> 0]

At(doc, i) == IF i <= Len(doc) THEN doc[i] ELSE "EOF"

Digits == {DigitChar[d + 1] : d \in 0..9}

DigitValues == [c \in Digits |-> CHOOSE d \in 0..9 : DigitChar[d + 1] = c]

DigitVal(c) == DigitValues[c]

IsDigit(c) == c \in Digits

RECURSIVE parse_digits(_, _, _)
parse_digits(doc, i, acc) ==
    IF IsDigit(At(doc, i)) THEN parse_digits(doc, i + 1, acc * 10 + DigitVal(doc[i]))
    ELSE [ok |-> TRUE, val |-> acc, next |-> i]

parse_u32(doc, i) ==
    IF ~IsDigit(At(doc, i)) THEN ParseErr
    ELSE IF doc[i] = "0" THEN
        (IF IsDigit(At(doc, i + 1)) THEN ParseErr ELSE [ok |-> TRUE, val |-> 0, next |-> i + 1])
    ELSE parse_digits(doc, i, 0)

RECURSIVE parse_chars(_, _, _)
parse_chars(doc, i, acc) ==
    IF At(doc, i) = "\"" THEN [ok |-> TRUE, val |-> acc, next |-> i + 1]
    ELSE IF At(doc, i) = "\\" THEN
        (IF At(doc, i + 1) \in {"\"", "\\"}
         THEN parse_chars(doc, i + 2, Append(acc, doc[i + 1]))
         ELSE ParseErr)
    ELSE IF At(doc, i) \in Chars THEN parse_chars(doc, i + 1, Append(acc, doc[i]))
    ELSE ParseErr

parse_str(doc, i) ==
    IF At(doc, i) = "\"" THEN parse_chars(doc, i + 1, <<>>) ELSE ParseErr

parse_task_end(doc, id, d) ==
    IF ~d.ok \/ At(doc, d.next) # "}" THEN ParseErr
    ELSE [ok |-> TRUE, val |-> [id |-> id, description |-> d.val], next |-> d.next + 1]

parse_task_description(doc, n) ==
    IF ~n.ok \/ At(doc, n.next) # "," \/ At(doc, n.next + 1) # "\"description\":"
    THEN ParseErr
    ELSE parse_task_end(doc, n.val, parse_str(doc, n.next + 2))

parse_task(doc, i) ==
    IF At(doc, i) # "{" \/ At(doc, i + 1) # "\"id\":" THEN ParseErr
    ELSE parse_task_description(doc, parse_u32(doc, i + 2))

RECURSIVE parse_elems(_, _, _)
parse_elems_next(doc, acc, t) ==
    IF ~t.ok THEN ParseErr
    ELSE IF At(doc, t.next) = "," THEN parse_elems(doc, t.next + 1, Append(acc, t.val))
    ELSE IF At(doc, t.next) = "]" THEN
        [ok |-> TRUE, val |-> Append(acc, t.val), next |-> t.next + 1]
    ELSE ParseErr

parse_elems(doc, i, acc) == parse_elems_next(doc, acc, parse_task(doc, i))

\* the whole input must be consumed
parse_end(doc, r) == IF r.ok /\ r.next = Len(doc) + 1 THEN r ELSE ParseErr

from_str(doc) ==
    IF At(doc, 1) # "[" THEN ParseErr
    ELSE IF At(doc, 2) = "]" THEN parse_end(doc, [ok |-> TRUE, val |-> <<>>, next |-> 3])
    ELSE parse_end(doc, parse_elems(doc, 2, <<>>))

-----------------------------------------------------------------------------
(* The file system under cfg.home.  A path is <<FILE_NAME>> for a store    *)
(* file and <<FILE_NAME, "sigo-tmp", pid>> for a temporary file; fs maps   *)
(* the paths that exist to their content.  The three store files exist     *)
(* from the start and a rename never removes its target, so                *)
(* utils::create_file_if_not_exist finds the file and does nothing.        *)

path(FILE_NAME) == <<FILE_NAME>>

tmp_path_untagged(FILE_NAME, pid) == <<FILE_NAME, "sigo-tmp", 0>>

tmp_path_in_place(FILE_NAME, pid) == <<FILE_NAME>>

\* path.with_extension(format!("sigo-tmp-{}", std::process::id()))
tmp_path(FILE_NAME, pid) == <<FILE_NAME, "sigo-tmp", pid>>

\* std::fs::File::create: create the file, or truncate it when it exists
File_create(f, p) ==
    [q \in DOMAIN f \cup {p} |-> IF q = p THEN <<>> ELSE f[q]]

\* one write(2) of `bytes` at offset `off` through a handle opened on p
file_write(f, p, off, bytes) ==
    IF p \notin DOMAIN f THEN f
    ELSE LET old == f[p]
             keep == IF off <= Len(old) THEN SubSeq(old, 1, off)
                     ELSE old \o [i \in 1..(off - Len(old)) |-> "NUL"]
             rest == SubSeq(old, off + Len(bytes) + 1, Len(old))
         IN [f EXCEPT ![p] = keep \o bytes \o rest]

fs_rename_noreplace(f, from, to) ==
    IF to \in DOMAIN f THEN [q \in DOMAIN f \ {from} |-> f[q]]
    ELSE [q \in (DOMAIN f \ {from}) \cup {to} |-> IF q = to THEN f[from] ELSE f[q]]

\* std::fs::rename: the target path now names the source's content
fs_rename(f, from, to) ==
    [q \in (DOMAIN f \ {from}) \cup {to} |-> IF q = to THEN f[from] ELSE f[q]]

-----------------------------------------------------------------------------
(* The per-store functions the macros generate *)

read_tasks(f, FILE_NAME) == from_str(f[path(FILE_NAME)])

\* the whole of write_tasks, run without interruption
write_tasks(f, FILE_NAME, pid, tasks) ==
    fs_rename(file_write(File_create(f, tmp_path(FILE_NAME, pid)),
                         tmp_path(FILE_NAME, pid), 0, to_string(tasks)),
              tmp_path(FILE_NAME, pid), path(FILE_NAME))

add_task_overwrite(f, FILE_NAME, pid, task) ==
    write_tasks(f, FILE_NAME, pid, <<task>>)

add_task(f, FILE_NAME, pid, task) ==
    write_tasks(f, FILE_NAME, pid, Append(read_tasks(f, FILE_NAME).val, task))

NoTask == [variant |-> "None", id |-> 0, description |-> <<>>]

SomeTask(variant, t) == [variant |-> variant, id |-> t.id, description |-> t.description]

\* tasks.into_iter().find(|t| t.id == id)
find_id(tasks, id) ==
    LET hits == {i \in 1..Len(tasks) : tasks[i].id = id}
    IN IF hits = {} THEN NoTask
       ELSE SomeTask("Some", tasks[CHOOSE i \in hits : \A j \in hits : i <= j])

get_by_id(f, FILE_NAME, id) == find_id(read_tasks(f, FILE_NAME).val, id)

RECURSIVE filter_id_first_only(_, _)
filter_id_first_only(tasks, id) ==
    IF tasks = <<>> THEN <<>>
    ELSE IF Head(tasks).id = id THEN Tail(tasks)
    ELSE <<Head(tasks)>> \o filter_id_first_only(Tail(tasks), id)

\* tasks.into_iter().filter(|t| t.id != id).collect()
filter_id(tasks, id) == SelectSeq(tasks, LAMBDA t : t.id # id)

delete_by_id_into_ready(f, FILE_NAME, pid, id) ==
    write_tasks(f, FILE_NAME_READY, pid, filter_id(read_tasks(f, FILE_NAME).val, id))

delete_by_id(f, FILE_NAME, pid, id) ==
    write_tasks(f, FILE_NAME, pid, filter_id(read_tasks(f, FILE_NAME).val, id))

-----------------------------------------------------------------------------
(* impl Task *)

first_found_completed_first(ready_task, waiting_task, completed_task) ==
    IF completed_task # NoTask THEN SomeTask("Completed", completed_task)
    ELSE IF ready_task # NoTask THEN SomeTask("Ready", ready_task)
    ELSE IF waiting_task # NoTask THEN SomeTask("Waiting", waiting_task)
    ELSE NoTask

\* the first of the three probes that found a record
first_found(ready_task, waiting_task, completed_task) ==
    IF ready_task # NoTask THEN SomeTask("Ready", ready_task)
    ELSE IF waiting_task # NoTask THEN SomeTask("Waiting", waiting_task)
    ELSE IF completed_task # NoTask THEN SomeTask("Completed", completed_task)
    ELSE NoTask

Task_get_by_id(f, id) ==
    first_found(get_by_id(f, FILE_NAME_READY, id),
                get_by_id(f, FILE_NAME_WAITING, id),
                get_by_id(f, FILE_NAME_COMPLETED, id))

complete_filtered_store_own(variant) ==
    IF variant = "Ready" THEN FILE_NAME_READY
    ELSE IF variant = "Waiting" THEN FILE_NAME_READY
    ELSE FILE_NAME_COMPLETED

\* the match of Task::complete: the store it filters, by the variant of self
complete_filtered_store(variant) ==
    IF variant = "Ready" THEN FILE_NAME_READY
    ELSE IF variant = "Waiting" THEN FILE_NAME_READY
    ELSE "none"

complete_match_by_description(f, pid, self) ==
    IF complete_filtered_store(self.variant) = "none" THEN f
    ELSE write_tasks(f, complete_filtered_store(self.variant), pid,
                     SelectSeq(read_tasks(f, complete_filtered_store(self.variant)).val,
                               LAMBDA t : t.description # self.description))

\* the arms of the match: filter the store by self.id and write it back
complete_match(f, pid, self) ==
    IF complete_filtered_store(self.variant) = "none" THEN f
    ELSE write_tasks(f, complete_filtered_store(self.variant), pid,
                     filter_id(read_tasks(f, complete_filtered_store(self.variant)).val, self.id))

complete_push_replace(f, pid, completed_task) ==
    write_tasks(f, FILE_NAME_COMPLETED, pid, <<completed_task>>)

\* the tail of Task::complete: read Completed, push, write
complete_push(f, pid, completed_task) ==
    write_tasks(f, FILE_NAME_COMPLETED, pid,
                Append(read_tasks(f, FILE_NAME_COMPLETED).val, completed_task))

complete(f, pid, self) ==
    complete_push(complete_match(f, pid, self), pid,
                  CompletedTask(self.id, self.description))

max_id_off_by_one(using_ids) == Cardinality(using_ids)

\* the ceiling of the search of issue_task_id
max_id(using_ids) == Cardinality(using_ids) + 1

\* (1u32..=max_id).find(|x| !using_ids.contains(x)); 0 stands for the panic
\* of the final unwrap() when the search finds nothing
find_unused(using_ids) ==
    LET free == {x \in 1..max_id(using_ids) : x \notin using_ids}
    IN IF free = {} THEN 0 ELSE CHOOSE x \in free : \A y \in free : x <= y

IdsOf(tasks) == {tasks[i].id : i \in 1..Len(tasks)}

issue_task_id_ready_only(f) == find_unused(IdsOf(read_tasks(f, FILE_NAME_READY).val))

issue_task_id(f) ==
    find_unused(IdsOf(read_tasks(f, FILE_NAME_READY).val)
                \cup IdsOf(read_tasks(f, FILE_NAME_WAITING).val))

-----------------------------------------------------------------------------
(* impl ReadyTask, impl WaitingTask *)

ReadyTask_new(f, description) == ReadyTask(issue_task_id(f), description)

ReadyTask_new_files_persist(f, pid, description) ==
    add_task(f, FILE_NAME_READY, pid, ReadyTask_new(f, description))

\* the files after ReadyTask::new: issue_task_id calls read_tasks twice, which
\* finds the store files there and only reads them, and nothing is written
ReadyTask_new_files(f, pid, description) == f

wait_without_delete(f, pid, self) ==
    add_task(f, FILE_NAME_WAITING, pid, from_ready(self))

wait(f, pid, self) ==
    add_task(delete_by_id(f, FILE_NAME_READY, pid, self.id),
             FILE_NAME_WAITING, pid, from_ready(self))

back_without_delete(f, pid, self) ==
    add_task(f, FILE_NAME_READY, pid, from_waiting(self))

back(f, pid, self) ==
    add_task(delete_by_id(f, FILE_NAME_WAITING, pid, self.id),
             FILE_NAME_READY, pid, from_waiting(self))

-----------------------------------------------------------------------------
(* State of a run *)

Ready == read_tasks(fs, FILE_NAME_READY).val

Waiting == read_tasks(fs, FILE_NAME_WAITING).val

Completed == read_tasks(fs, FILE_NAME_COMPLETED).val

\* the process of a single-process run
SelfPid == CHOOSE p \in Procs : \A q \in Procs : p <= q

\* a process that has not started its command; before and renames record the
\* store file as the process found it when it entered write_tasks
IdleProc ==
    [pc |-> "idle", cmd |-> "none", store |-> "none", tasks |-> <<>>, off |-> 0,
     before |-> <<>>, renames |-> 0]

NoSnap ==
    [valid |-> FALSE, created |-> FALSE, description |-> <<>>, ready |-> <<>>, waiting |-> <<>>]

Observed(op, arg, t) ==
    [op |-> op, arg |-> arg, variant |-> t.variant, id |-> t.id,
     description |-> t.description]

\* the three store files, without the temporary files
StoreFilesOf(f) == [p \in {path(s) : s \in Stores} |-> f[p]]

StoreFiles(ready_tasks, waiting_tasks, completed_tasks) ==
    [p \in {path(s) : s \in Stores} |->
        IF p = path(FILE_NAME_READY) THEN to_string(ready_tasks)
        ELSE IF p = path(FILE_NAME_WAITING) THEN to_string(waiting_tasks)
        ELSE to_string(completed_tasks)]

InitObs ==
    /\ proc = [p \in Procs |-> IdleProc]
    /\ last = Observed("none", 0, NoTask)
    /\ snap = NoSnap

\* three empty stores
Init ==
    /\ fs = StoreFiles(<<>>, <<>>, <<>>)
    /\ pre = StoreFilesOf(fs)
    /\ InitObs

-----------------------------------------------------------------------------
(* The operations of a single-process run, each on the task that           *)
(* Task::get_by_id returns for the id given                                *)

\* ReadyTask::new alone: nothing is stored (an id of 0 records the panic)
New(description) ==
    \E task \in {ReadyTask_new(fs, description)} :
        /\ last' = Observed("new", 0, SomeTask("Ready", task))
        /\ snap' = NoSnap
        /\ pre' = StoreFilesOf(fs)
    /\ fs' = ReadyTask_new_files(fs, SelfPid, description)
    /\ UNCHANGED proc

\* ReadyTask::new a second time, right after the first; arg keeps the id the
\* first call returned and pre the files of before the first call
NewAgain(description) ==
    /\ last.op = "new"
    /\ \E task \in {ReadyTask_new(fs, description)} :
        last' = Observed("new twice", last.id, SomeTask("Ready", task))
    /\ fs' = ReadyTask_new_files(fs, SelfPid, description)
    /\ snap' = NoSnap
    /\ UNCHANGED <<proc, pre>>

\* delete_by_id of the Ready or the Waiting store, on its own
Delete(FILE_NAME, id) ==
    /\ fs' = delete_by_id(fs, FILE_NAME, SelfPid, id)
    /\ last' = Observed("delete_by_id", id, [variant |-> FILE_NAME, id |-> id, description |-> <<>>])
    /\ snap' = NoSnap
    /\ pre' = StoreFilesOf(fs)
    /\ UNCHANGED proc

\* ReadyTask::new, then ReadyTask::add_task
Create(description) ==
    \E task \in {ReadyTask_new(fs, description)} :
        /\ Len(Ready) + Len(Waiting) < MaxTasks
        /\ task.id # 0
        /\ fs' = add_task(fs, FILE_NAME_READY, SelfPid, task)
        /\ last' = Observed("create", task.id, SomeTask("Ready", task))
        /\ snap' = NoSnap
        /\ pre' = StoreFilesOf(fs)
        /\ UNCHANGED proc

Lookup(id) ==
    /\ last' = Observed("get_by_id", id, Task_get_by_id(fs, id))
    /\ snap' = NoSnap
    /\ pre' = StoreFilesOf(fs)
    /\ UNCHANGED <<fs, proc>>

Wait(id) ==
    \E task \in {Task_get_by_id(fs, id)} :
        /\ task.variant = "Ready"
        /\ fs' = wait(fs, SelfPid, ReadyTask(task.id, task.description))
        /\ last' = Observed("wait", id, task)
        /\ snap' = [valid |-> TRUE, created |-> (last.op = "create" /\ last.arg = id),
                    description |-> IF last.op = "create" /\ last.arg = id
                                    THEN last.description ELSE <<>>,
                    ready |-> Ready, waiting |-> Waiting]
        /\ pre' = StoreFilesOf(fs)
        /\ UNCHANGED proc

Back(id) ==
    \E task \in {Task_get_by_id(fs, id)} :
        /\ task.variant = "Waiting"
        /\ fs' = back(fs, SelfPid, WaitingTask(task.id, task.description))
        /\ last' = Observed("back", id, task)
        /\ snap' = IF last.op = "wait" /\ last.arg = id THEN snap ELSE NoSnap
        /\ pre' = StoreFilesOf(fs)
        /\ UNCHANGED proc

Complete(id) ==
    \E task \in {Task_get_by_id(fs, id)} :
        /\ task.variant # "None"
        /\ Len(Completed) < MaxCompleted
        /\ fs' = complete(fs, SelfPid, task)
        /\ last' = Observed("complete", id, task)
        /\ snap' = NoSnap
        /\ pre' = StoreFilesOf(fs)
        /\ UNCHANGED proc

\* Task::complete a second time on the task it has just completed from
\* Completed; pre keeps the files of before the first of the two calls
CompleteAgain(id) ==
    /\ last.op = "complete"
    /\ last.variant = "Completed"
    /\ last.arg = id
    /\ \E task \in {Task_get_by_id(fs, id)} :
        /\ task.variant = "Completed"
        /\ fs' = complete(fs, SelfPid, task)
        /\ last' = Observed("complete twice", id, task)
        /\ snap' = NoSnap
        /\ UNCHANGED <<proc, pre>>

Next ==
    \/ \E d \in Descs : Create(d)
    \/ \E id \in Ids : Wait(id)
    \/ \E id \in Ids : Back(id)
    \/ \E id \in Ids : Complete(id)

\* single-process runs from three empty stores
Spec == Init /\ [][Next]_vars

(* One operation applied to arbitrary store contents: any three lists of    *)
(* records, ids repeated within and between the stores, or sparse.         *)

Records == [id : Ids, description : Descs]

RECURSIVE ListsOf(_)
ListsOf(n) ==
    IF n = 0 THEN {<<>>}
    ELSE ListsOf(n - 1) \cup {Append(l, r) : l \in {x \in ListsOf(n - 1) : Len(x) = n - 1}, r \in Records}

\* every list of at most MaxInit records, cut into the three stores
InitLists == ListsOf(MaxInit)

InitAny ==
    /\ \E all \in InitLists : \E i \in 0..Len(all) : \E j \in i..Len(all) :
        fs = StoreFiles(SubSeq(all, 1, i), SubSeq(all, i + 1, j), SubSeq(all, j + 1, Len(all)))
    /\ pre = StoreFilesOf(fs)
    /\ InitObs

Fresh == last.op = "none"

NextAny ==
    \/ Fresh /\ \E d \in Descs : Create(d)
    \/ Fresh /\ \E id \in Ids : Wait(id)
    \/ Fresh /\ \E id \in Ids : Back(id)
    \/ Fresh /\ \E id \in Ids : Complete(id)
    \/ Fresh /\ \E d \in Descs : New(d)
    \/ Fresh /\ \E id \in Ids : Lookup(id)
    \/ \E id \in Ids : CompleteAgain(id)

SpecAny == InitAny /\ [][NextAny]_vars

\* ReadyTask::new, twice in a row, on arbitrary store contents
NextNew ==
    \/ Fresh /\ \E d \in Descs : New(d)
    \/ \E d \in Descs : NewAgain(d)

SpecNew == InitAny /\ [][NextNew]_vars

\* delete_by_id on arbitrary store contents
NextDelete ==
    Fresh /\ \E FILE_NAME \in {FILE_NAME_READY, FILE_NAME_WAITING}, id \in Ids :
        Delete(FILE_NAME, id)

SpecDelete == InitAny /\ [][NextDelete]_vars

(* write_tasks on its own: any list, onto any earlier content of the stores. *)
(* The records have one-digit and two-digit ids, an empty description and   *)
(* one with both characters that are escaped.                               *)

WriteRecords == [id : {1, 10}, description : {<<>>, <<"\\", "\"", "a">>}]

RECURSIVE ListsFrom(_, _)
ListsFrom(S, n) ==
    IF n = 0 THEN {<<>>}
    ELSE ListsFrom(S, n - 1)
         \cup {Append(l, r) : l \in {x \in ListsFrom(S, n - 1) : Len(x) = n - 1}, r \in S}

WriteAnyLists == ListsFrom(WriteRecords, MaxWrite)

InitWrite ==
    /\ \E all \in WriteAnyLists : \E i \in 0..Len(all) : \E j \in i..Len(all) :
        fs = StoreFiles(SubSeq(all, 1, i), SubSeq(all, i + 1, j), SubSeq(all, j + 1, Len(all)))
    /\ pre = StoreFilesOf(fs)
    /\ InitObs

\* the whole of write_tasks; the process keeps the list it handed in
Write(FILE_NAME, tasks) ==
    /\ fs' = write_tasks(fs, FILE_NAME, SelfPid, tasks)
    /\ proc' = [proc EXCEPT ![SelfPid] =
                  [pc |-> "done", cmd |-> "write_tasks", store |-> FILE_NAME,
                   tasks |-> tasks, off |-> Len(to_string(tasks)),
                   before |-> fs[path(FILE_NAME)], renames |-> 0]]
    /\ last' = Observed("write_tasks", 0, NoTask)
    /\ snap' = NoSnap
    /\ pre' = StoreFilesOf(fs)

NextWrite ==
    Fresh /\ \E FILE_NAME \in Stores, tasks \in WriteAnyLists : Write(FILE_NAME, tasks)

SpecWrite == InitWrite /\ [][NextWrite]_vars

-----------------------------------------------------------------------------
(* Concurrent runs: every process is one invocation of the tool, has its   *)
(* own process id and runs one store function, write_tasks step by step:   *)
(* File::create of the temporary file, the write(2) calls of write_all,    *)
(* the rename.  A process can be killed between any two steps.             *)

\* the lists a process may hand to write_tasks
WriteLists == {<<>>} \cup {<<ReadyTask(1, d)>> : d \in Descs}

Step(op) == Observed(op, 0, NoTask)

\* the renames onto a store so far: one by each process that finished write_tasks
Renames(FILE_NAME) ==
    Cardinality({q \in Procs : /\ proc[q].cmd = "write_tasks"
                               /\ proc[q].store = FILE_NAME
                               /\ proc[q].pc = "done"})

\* write_tasks is entered: the paths are computed, the store file exists
StartWrite(p, FILE_NAME, tasks) ==
    /\ proc[p].pc = "idle"
    /\ proc' = [proc EXCEPT ![p] =
                  [pc |-> "create", cmd |-> "write_tasks", store |-> FILE_NAME,
                   tasks |-> tasks, off |-> 0,
                   before |-> fs[path(FILE_NAME)], renames |-> Renames(FILE_NAME)]]
    /\ last' = Step("write_tasks")
    /\ pre' = StoreFilesOf(fs)
    /\ UNCHANGED <<fs, snap>>

\* std::fs::File::create(&tmp_path)
CreateTmp(p) ==
    /\ proc[p].pc = "create"
    /\ fs' = File_create(fs, tmp_path(proc[p].store, p))
    /\ proc' = [proc EXCEPT ![p].pc = "write"]
    /\ last' = Step("File::create")
    /\ pre' = StoreFilesOf(fs)
    /\ UNCHANGED snap

\* write_all: one write(2) that takes k of the bytes still to be written; the
\* buffer of the BufWriter is as long as the content, so write_all hands the
\* bytes to the file, and the flush that follows has nothing left to write
WriteTmp(p) ==
    /\ proc[p].pc = "write"
    /\ \E content \in {to_string(proc[p].tasks)} :
       \E k \in 1..(Len(content) - proc[p].off) :
        /\ fs' = file_write(fs, tmp_path(proc[p].store, p), proc[p].off,
                            SubSeq(content, proc[p].off + 1, proc[p].off + k))
        /\ proc' = [proc EXCEPT ![p].off = proc[p].off + k,
                                ![p].pc = IF proc[p].off + k = Len(content)
                                          THEN "rename" ELSE "write"]
    /\ last' = Step("write_all")
    /\ pre' = StoreFilesOf(fs)
    /\ UNCHANGED snap

\* std::fs::rename(&tmp_path, path).unwrap()
Rename(p) ==
    /\ proc[p].pc = "rename"
    /\ IF tmp_path(proc[p].store, p) \in DOMAIN fs
       THEN /\ fs' = fs_rename(fs, tmp_path(proc[p].store, p), path(proc[p].store))
            /\ proc' = [proc EXCEPT ![p].pc = "done"]
       ELSE /\ fs' = fs
            /\ proc' = [proc EXCEPT ![p].pc = "panicked"]
    /\ last' = Step("rename")
    /\ pre' = StoreFilesOf(fs)
    /\ UNCHANGED snap

\* the process is killed inside write_tasks, before its rename
Crash(p) ==
    /\ proc[p].pc \in {"create", "write", "rename"}
    /\ proc' = [proc EXCEPT ![p].pc = "crashed"]
    /\ last' = Step("crash")
    /\ pre' = StoreFilesOf(fs)
    /\ UNCHANGED <<fs, snap>>

\* read_tasks: the file is read as it is now; unwrap() panics on a document
\* that does not parse
Read(p, FILE_NAME) ==
    /\ proc[p].pc = "idle"
    /\ \E r \in {read_tasks(fs, FILE_NAME)} :
        proc' = [proc EXCEPT ![p] =
                   [pc |-> IF r.ok THEN "done" ELSE "panicked", cmd |-> "read_tasks",
                    store |-> FILE_NAME, tasks |-> r.val, off |-> 0,
                    before |-> fs[path(FILE_NAME)], renames |-> Renames(FILE_NAME)]]
    /\ last' = Step("read_tasks")
    /\ pre' = StoreFilesOf(fs)
    /\ UNCHANGED <<fs, snap>>

NextFS ==
    \/ \E p \in Procs, FILE_NAME \in Stores, tasks \in WriteLists : StartWrite(p, FILE_NAME, tasks)
    \/ \E p \in Procs : CreateTmp(p)
    \/ \E p \in Procs : WriteTmp(p)
    \/ \E p \in Procs : Rename(p)
    \/ \E p \in Procs : Crash(p)
    \/ \E p \in Procs, FILE_NAME \in Stores : Read(p, FILE_NAME)

SpecFS == Init /\ [][NextFS]_vars

(* Concurrent add_task: every process adds one record of its own to the    *)
(* Ready or the Waiting store; add_task is read_tasks, push, write_tasks,  *)
(* and write_tasks runs step by step as above.                             *)

\* the stores that have an add_task
AddStores == {FILE_NAME_READY, FILE_NAME_WAITING}

\* the records process p may add: told apart by the id
AddRecords(p) == {ReadyTask(p, d) : d \in Descs}

\* add_task up to the first file operation of write_tasks: the list is read,
\* the record pushed, write_tasks entered with the result
StartAdd(p, FILE_NAME, task) ==
    /\ proc[p].pc = "idle"
    /\ \E r \in {read_tasks(fs, FILE_NAME)} :
        proc' = [proc EXCEPT ![p] =
                   [pc |-> IF r.ok THEN "create" ELSE "panicked", cmd |-> "add_task",
                    store |-> FILE_NAME, tasks |-> Append(r.val, task), off |-> 0,
                    before |-> fs[path(FILE_NAME)], renames |-> Renames(FILE_NAME)]]
    /\ last' = Step("add_task")
    /\ pre' = StoreFilesOf(fs)
    /\ UNCHANGED <<fs, snap>>

NextAdd ==
    \/ \E p \in Procs, FILE_NAME \in AddStores : \E task \in AddRecords(p) :
            StartAdd(p, FILE_NAME, task)
    \/ \E p \in Procs : CreateTmp(p)
    \/ \E p \in Procs : WriteTmp(p)
    \/ \E p \in Procs : Rename(p)

SpecAdd == Init /\ [][NextAdd]_vars

(* ReadyTask::wait and WaitingTask::back step by step, in one process, on   *)
(* any content of the stores: the two store functions one after the other, *)
(* each write_tasks step by step; the process can be killed inside a       *)
(* write_tasks or between the two store functions.                         *)

wait_steps_add_first ==
    <<[fn |-> "add_task", store |-> FILE_NAME_WAITING],
      [fn |-> "delete_by_id", store |-> FILE_NAME_READY]>>

\* the body of ReadyTask::wait
wait_steps ==
    <<[fn |-> "delete_by_id", store |-> FILE_NAME_READY],
      [fn |-> "add_task", store |-> FILE_NAME_WAITING]>>

\* the body of WaitingTask::back
back_steps ==
    <<[fn |-> "delete_by_id", store |-> FILE_NAME_WAITING],
      [fn |-> "add_task", store |-> FILE_NAME_READY]>>

move_steps(cmd) == IF cmd = "wait" THEN wait_steps ELSE back_steps

\* the record given to add_task
move_record(cmd, self) == IF cmd = "wait" THEN from_ready(self) ELSE from_waiting(self)

step_tasks_delete_nothing(f, step, self) ==
    IF step.fn = "delete_by_id" THEN read_tasks(f, step.store).val
    ELSE Append(read_tasks(f, step.store).val, self)

\* the list delete_by_id and add_task hand to write_tasks
step_tasks(f, step, self) ==
    IF step.fn = "delete_by_id" THEN filter_id(read_tasks(f, step.store).val, self.id)
    ELSE Append(read_tasks(f, step.store).val, self)

MoveCmds == {"wait", "back"}

InitMove ==
    /\ \E all \in ListsFrom(Records, MaxTasks) : \E i \in 0..Len(all) : \E j \in i..Len(all) :
        fs = StoreFiles(SubSeq(all, 1, i), SubSeq(all, i + 1, j), SubSeq(all, j + 1, Len(all)))
    /\ pre = StoreFilesOf(fs)
    /\ InitObs

\* the command starts on the task Task::get_by_id returns: the first store
\* function reads its store and enters write_tasks
StartMove(p, cmd, id) ==
    /\ proc[p].pc = "idle"
    /\ \E task \in {Task_get_by_id(fs, id)} :
        /\ task.variant = (IF cmd = "wait" THEN "Ready" ELSE "Waiting")
        /\ proc' = [proc EXCEPT ![p] =
                      [pc |-> "create", cmd |-> cmd, store |-> move_steps(cmd)[1].store,
                       tasks |-> step_tasks(fs, move_steps(cmd)[1],
                                            move_record(cmd, ReadyTask(task.id, task.description))),
                       off |-> 0, before |-> fs[path(move_steps(cmd)[1].store)],
                       renames |-> 0, step |-> 1,
                       self |-> ReadyTask(task.id, task.description)]]
    /\ last' = Step(cmd)
    /\ snap' = [valid |-> TRUE, created |-> FALSE, description |-> <<>>,
                ready |-> Ready, waiting |-> Waiting]
    /\ pre' = StoreFilesOf(fs)
    /\ UNCHANGED fs

\* the first store function has returned: the second reads its store and
\* enters write_tasks
SecondStep(p) ==
    /\ proc[p].cmd \in MoveCmds
    /\ proc[p].pc = "done"
    /\ proc[p].step = 1
    /\ proc' = [proc EXCEPT ![p].pc = "create",
                            ![p].step = 2,
                            ![p].store = move_steps(proc[p].cmd)[2].store,
                            ![p].tasks = step_tasks(fs, move_steps(proc[p].cmd)[2],
                                                    move_record(proc[p].cmd, proc[p].self)),
                            ![p].off = 0,
                            ![p].before = fs[path(move_steps(proc[p].cmd)[2].store)]]
    /\ last' = Step("second")
    /\ pre' = StoreFilesOf(fs)
    /\ UNCHANGED <<fs, snap>>

\* the process is killed after the first store function has returned and
\* before the second is called
Kill(p) ==
    /\ proc[p].cmd \in MoveCmds
    /\ proc[p].pc = "done"
    /\ proc[p].step = 1
    /\ proc' = [proc EXCEPT ![p].pc = "killed"]
    /\ last' = Step("kill")
    /\ pre' = StoreFilesOf(fs)
    /\ UNCHANGED <<fs, snap>>

NextMove ==
    \/ \E cmd \in MoveCmds, id \in Ids : StartMove(SelfPid, cmd, id)
    \/ CreateTmp(SelfPid)
    \/ WriteTmp(SelfPid)
    \/ Rename(SelfPid)
    \/ SecondStep(SelfPid)
    \/ Crash(SelfPid)
    \/ Kill(SelfPid)

SpecMove == InitMove /\ [][NextMove]_vars

-----------------------------------------------------------------------------
(* Properties of the single-process operations *)

Range(seq) == {seq[i] : i \in 1..Len(seq)}

BagOf(seq) == [r \in Range(seq) |-> Cardinality({i \in 1..Len(seq) : seq[i] = r})]

NoRepeatedId(tasks) ==
    \A i, j \in 1..Len(tasks) : tasks[i].id = tasks[j].id => i = j

\* the stores before the last operation
PreReady == read_tasks(pre, FILE_NAME_READY).val

PreWaiting == read_tasks(pre, FILE_NAME_WAITING).val

PreCompleted == read_tasks(pre, FILE_NAME_COMPLETED).val

UsedIds == IdsOf(Ready) \cup IdsOf(Waiting)

AllIds == UsedIds \cup IdsOf(Completed)

\* the first record of tasks with the id given
IsFirstWithId(tasks, id, t) ==
    \E i \in 1..Len(tasks) :
        /\ tasks[i].id = id
        /\ \A j \in 1..(i - 1) : tasks[j].id # id
        /\ t.id = id
        /\ t.description = tasks[i].description

\* C1: from three empty stores, after any sequence of create, wait, back and
\* complete, every id appears in at most one of the Ready, Waiting and
\* Completed stores.
C1_IdInAtMostOneStore ==
    \A id \in AllIds :
        /\ ~(id \in IdsOf(Ready) /\ id \in IdsOf(Waiting))
        /\ ~(id \in IdsOf(Ready) /\ id \in IdsOf(Completed))
        /\ ~(id \in IdsOf(Waiting) /\ id \in IdsOf(Completed))

\* C2: on every content of Ready and Waiting, issue_task_id finds a value, and
\* it is the smallest positive integer that is the id of no Ready or Waiting
\* record: 1 on empty stores, 4 on {1,2,3}, 1 on {2,3}.
C2_SmallestUnusedId ==
    last.op = "new" =>
        /\ last.id >= 1
        /\ last.id \notin UsedIds
        /\ \A x \in 1..(last.id - 1) : x \in UsedIds
        /\ (UsedIds = {} => last.id = 1)
        /\ (UsedIds = {1, 2, 3} => last.id = 4)
        /\ (UsedIds = {2, 3} => last.id = 1)

C2_Witness ==
    /\ last.op = "new"
    /\ UsedIds = {1, 2, 3}
    /\ last.id = 4

\* C3: from three empty stores, after any sequence of create, wait, back and
\* complete, no id is repeated inside Ready, none inside Waiting, and no id is
\* in both Ready and Waiting.
C3_UniqueAcrossReadyWaiting ==
    /\ NoRepeatedId(Ready)
    /\ NoRepeatedId(Waiting)
    /\ IdsOf(Ready) \cap IdsOf(Waiting) = {}

C3_Witness ==
    /\ last.op = "back"
    /\ Len(Ready) >= 1
    /\ Len(Waiting) >= 1
    /\ Len(Completed) >= 1

\* C4: after complete() on a Waiting task, the Waiting store holds no record
\* of its id and the Completed store holds a record with its id and description.
C4_CompleteWaitingLeavesWaiting ==
    (last.op = "complete" /\ last.variant = "Waiting") =>
        /\ last.id \notin IdsOf(Waiting)
        /\ CompletedTask(last.id, last.description) \in Range(Completed)

\* C5: complete() on a Ready task with id i and description d removes every
\* Ready record of id i, keeps every other Ready record, and appends exactly
\* {i, d} to the Completed store.
C5_CompleteReady ==
    (last.op = "complete" /\ last.variant = "Ready") =>
        /\ IsFirstWithId(PreReady, last.arg, last)
        /\ last.id \notin IdsOf(Ready)
        /\ Ready = SelectSeq(PreReady, LAMBDA t : t.id # last.id)
        /\ Completed = Append(PreCompleted, CompletedTask(last.id, last.description))

C5_Witness ==
    /\ last.op = "complete"
    /\ last.variant = "Ready"
    /\ Len(Ready) >= 1
    /\ Len(PreReady) >= 3

\* C6: a task created by new + add_task and then put to wait() is in no Ready
\* record, is in Waiting with the id and the description it was created with,
\* and the Completed store is as it was.
C6_WaitAfterCreate ==
    (last.op = "wait" /\ snap.created) =>
        /\ last.arg \notin IdsOf(Ready)
        /\ WaitingTask(last.arg, snap.description) \in Range(Waiting)
        /\ Completed = PreCompleted

C6_Witness ==
    /\ last.op = "wait"
    /\ snap.created
    /\ last.id \in IdsOf(Waiting)

\* C7: wait() then back() on a Ready task gives back the stores of before the
\* wait(): Ready and Waiting hold the same records as then, the task is in
\* Ready and not in Waiting.
C7_WaitThenBack ==
    (last.op = "back" /\ snap.valid) =>
        /\ BagOf(Ready) = BagOf(snap.ready)
        /\ BagOf(Waiting) = BagOf(snap.waiting)
        /\ ReadyTask(last.id, last.description) \in Range(Ready)
        /\ last.id \notin IdsOf(Waiting)

C7_Witness ==
    /\ last.op = "back"
    /\ snap.valid
    /\ Len(snap.ready) >= 2
    /\ Ready # snap.ready

\* C8: get_by_id(id) is none exactly when no store holds the id; otherwise it
\* is the first match of the first of Ready, Waiting, Completed that holds the
\* id, in that store's variant; and it changes no file.
C8_ResultOfLookup ==
    last.op = "get_by_id" =>
        /\ (last.variant = "None") = (last.arg \notin AllIds)
        /\ last.arg \in IdsOf(Ready) =>
            (last.variant = "Ready" /\ IsFirstWithId(Ready, last.arg, last))
        /\ (last.arg \notin IdsOf(Ready) /\ last.arg \in IdsOf(Waiting)) =>
            (last.variant = "Waiting" /\ IsFirstWithId(Waiting, last.arg, last))
        /\ (last.arg \notin UsedIds /\ last.arg \in IdsOf(Completed)) =>
            (last.variant = "Completed" /\ IsFirstWithId(Completed, last.arg, last))

C8_GetById ==
    /\ C8_ResultOfLookup
    /\ (last.op = "get_by_id" => fs = pre)

C8_Witness ==
    /\ last.op = "get_by_id"
    /\ last.arg \in IdsOf(Ready) \cap IdsOf(Completed)
    /\ last.variant = "Ready"

-----------------------------------------------------------------------------
(* Properties of the concurrent runs *)

Writers(FILE_NAME) ==
    {q \in Procs : proc[q].cmd = "write_tasks" /\ proc[q].store = FILE_NAME}

\* the lists a read of the store may return: what the store held at first,
\* and every list handed in full to a write_tasks on it
Published(FILE_NAME) == {<<>>} \cup {proc[q].tasks : q \in Writers(FILE_NAME)}

\* the process was killed inside write_tasks and nobody has renamed a file
\* onto its store since it entered write_tasks
Interrupted(p) ==
    /\ proc[p].cmd = "write_tasks"
    /\ proc[p].pc = "crashed"
    /\ Renames(proc[p].store) = proc[p].renames

\* C9: a write_tasks killed before its rename leaves the store file as it
\* was: a later read_tasks returns the list stored before the write began, and
\* of the files of the store only the temporary file of the process differs.
C9_InterruptedWrite ==
    \A p \in Procs : Interrupted(p) =>
        /\ fs[path(proc[p].store)] = proc[p].before
        /\ read_tasks(fs, proc[p].store).ok
        /\ read_tasks(fs, proc[p].store).val = from_str(proc[p].before).val
        /\ (\A q \in Procs \ {p} : proc[q].cmd # "write_tasks") =>
            /\ StoreFilesOf(fs) = StoreFiles(<<>>, <<>>, <<>>)
            /\ DOMAIN fs \subseteq DOMAIN StoreFilesOf(fs) \cup {tmp_path(proc[p].store, p)}

C9_Witness ==
    \E p \in Procs :
        /\ Interrupted(p)
        /\ proc[p].off >= 1
        /\ proc[p].off < Len(to_string(proc[p].tasks))
        /\ fs[tmp_path(proc[p].store, p)] # <<>>
        /\ proc[p].before # to_string(<<>>)
        /\ proc[p].before # to_string(proc[p].tasks)

\* C10: whatever the writers are doing, a read_tasks of a store returns a
\* complete list, one handed in full to a write_tasks on that store or the
\* first content; two writers never share a temporary file; and only a rename
\* changes a store file.
C10_AtomicPublication ==
    /\ \A s \in Stores :
        /\ read_tasks(fs, s).ok
        /\ read_tasks(fs, s).val \in Published(s)
    /\ \A p \in Procs : proc[p].cmd = "read_tasks" =>
        /\ proc[p].pc = "done"
        /\ proc[p].tasks \in Published(proc[p].store)
    /\ \A p, q \in Procs :
        (p # q /\ proc[p].cmd = "write_tasks" /\ proc[q].cmd = "write_tasks")
            => tmp_path(proc[p].store, p) # tmp_path(proc[q].store, q)
    /\ (last.op # "rename" => StoreFilesOf(fs) = pre)

C10_Witness ==
    \E p, q \in Procs :
        /\ proc[p].cmd = "read_tasks" /\ proc[p].pc = "done"
        /\ proc[q].cmd = "write_tasks" /\ proc[q].pc = "write"
        /\ proc[q].store = proc[p].store
        /\ proc[q].off >= 1
        /\ proc[p].before = fs[path(proc[p].store)]
        /\ fs[tmp_path(proc[q].store, q)] # <<>>

-----------------------------------------------------------------------------
(* Properties of the store functions *)

\* C11: read_tasks right after write_tasks(L) on a store returns exactly L, the
\* same records in the same order, whatever the store held before: the write
\* replaces the whole content.
C11_ReadAfterWrite ==
    \A p \in Procs : (last.op = "write_tasks" /\ proc[p].pc = "done") =>
        /\ read_tasks(fs, proc[p].store).ok
        /\ read_tasks(fs, proc[p].store).val = proc[p].tasks

C11_Witness ==
    \E p \in Procs :
        /\ last.op = "write_tasks"
        /\ proc[p].pc = "done"
        /\ Len(proc[p].tasks) = 2
        /\ proc[p].tasks[1].description = <<"\\", "\"", "a">>
        /\ proc[p].tasks[2].id = 10
        /\ Len(from_str(proc[p].before).val) = 2
        /\ from_str(proc[p].before).val[1] # proc[p].tasks[1]

IsPrefix(s, t) == Len(s) <= Len(t) /\ SubSeq(t, 1, Len(s)) = s

\* C12: in a single-process run each of create, wait, back and complete
\* leaves the Completed store as it was or with records added at its end: the
\* content before the operation is a prefix of the content after it, so no
\* record of Completed is ever removed or changed.
C12_CompletedAppendOnly ==
    /\ IsPrefix(PreCompleted, Completed)
    /\ (last.op \in {"create", "wait", "back"} => Completed = PreCompleted)

C12_Witness ==
    /\ last.op = "complete"
    /\ Len(PreCompleted) >= 1
    /\ Len(Completed) = Len(PreCompleted) + 1
    /\ Completed[1] # Completed[2]

CountId(tasks, id) == Cardinality({i \in 1..Len(tasks) : tasks[i].id = id})

\* C13: Task::complete on a Completed task leaves Ready and Waiting as they
\* were and appends one record with the task's id and description to
\* Completed; a second call appends one more, so after two calls Completed
\* holds two more records of that id than before.
C13_CompleteCompleted ==
    /\ (last.op = "complete" /\ last.variant = "Completed") =>
        /\ Ready = PreReady
        /\ Waiting = PreWaiting
        /\ Completed = Append(PreCompleted, CompletedTask(last.id, last.description))
    /\ last.op = "complete twice" =>
        /\ Ready = PreReady
        /\ Waiting = PreWaiting
        /\ Completed = PreCompleted \o <<CompletedTask(last.id, last.description),
                                         CompletedTask(last.id, last.description)>>
        /\ CountId(Completed, last.id) = CountId(PreCompleted, last.id) + 2

C13_Witness ==
    /\ last.op = "complete twice"
    /\ Len(Completed) = 3
    /\ CountId(Completed, last.id) = 3
    /\ Len(Ready) + Len(Waiting) >= 1

\* the processes whose add_task on the store has returned
Adders(FILE_NAME) ==
    {q \in Procs : /\ proc[q].cmd = "add_task"
                   /\ proc[q].store = FILE_NAME
                   /\ proc[q].pc = "done"}

\* the process read the store before any add_task had written it
ReadFirst(q) == proc[q].before = to_string(<<>>)

\* C14: add_task is not atomic over its read and its write: when two
\* processes have both read a store before either wrote it, then once both
\* have returned the store holds one record only, the one of the process
\* that renamed last; the record of the other is lost.
C14_LostUpdate ==
    \A s \in AddStores :
        (Cardinality(Adders(s)) >= 2 /\ \A q \in Adders(s) : ReadFirst(q)) =>
            /\ Len(read_tasks(fs, s).val) = 1
            /\ \E q \in Adders(s) : read_tasks(fs, s).val = proc[q].tasks

C14_Witness ==
    \E p, q \in Procs :
        /\ p # q
        /\ {p, q} \subseteq Adders(FILE_NAME_READY)
        /\ ReadFirst(p) /\ ReadFirst(q)
        /\ Ready = proc[p].tasks
        /\ proc[q].tasks[1] \notin Range(Ready)
        /\ proc[q].tasks[1].id \notin IdsOf(Ready)

\* the records of three lists together
AllRecords(ready_tasks, waiting_tasks, completed_tasks) ==
    Range(ready_tasks) \cup Range(waiting_tasks) \cup Range(completed_tasks)

\* C19: no finished operation of a single-process run from empty stores loses
\* a task: every record {id, description} that create has added is in at
\* least one of Ready, Waiting and Completed.  Stated step by step: the
\* record create adds is in a store when create returns, and every record
\* that was in a store before an operation is in a store after it; the
\* stores start empty, so the records in them are the ones create added.
C19_NoTaskLost ==
    /\ AllRecords(PreReady, PreWaiting, PreCompleted) \subseteq AllRecords(Ready, Waiting, Completed)
    /\ last.op = "create" =>
           ReadyTask(last.id, last.description) \in AllRecords(Ready, Waiting, Completed)

C19_Witness ==
    /\ last.op = "complete"
    /\ last.variant = "Waiting"
    /\ Cardinality(AllRecords(Ready, Waiting, Completed)) >= 3
    /\ Len(Ready) >= 1
    /\ Len(PreCompleted) >= 1

\* C20: in a single-process run from empty stores, Task::complete on a task
\* that Task::get_by_id returns as Waiting leaves the list of the Ready store
\* as it was: no Ready record has the id of the waiting task, so the filter
\* of the Waiting arm removes nothing.
C20_CompleteWaitingKeepsReady ==
    (last.op = "complete" /\ last.variant = "Waiting") =>
        /\ last.id \notin IdsOf(PreReady)
        /\ Ready = PreReady

C20_Witness ==
    /\ last.op = "complete"
    /\ last.variant = "Waiting"
    /\ Len(PreReady) >= 1
    /\ PreReady[1].description = last.description
    /\ Len(Completed) = 2

\* C16: ReadyTask::new stores nothing: the record lists of the three stores
\* (and the files) are as before the call, and a second call right after the
\* first, with no change of a store between them, returns the same id.
C16_NewDoesNotPersist ==
    /\ last.op \in {"new", "new twice"} =>
        /\ Ready = PreReady
        /\ Waiting = PreWaiting
        /\ Completed = PreCompleted
        /\ fs = pre
    /\ last.op = "new twice" =>
        /\ last.id = last.arg
        /\ last.id \notin UsedIds

C16_Witness ==
    /\ last.op = "new twice"
    /\ last.id = 2
    /\ last.arg = 2
    /\ Len(Ready) >= 1
    /\ Len(Waiting) >= 1

\* C17: delete_by_id(id) on the Ready or the Waiting store removes every
\* record of that id and keeps the other records of the store in their
\* order; with no record of that id the list is unchanged; the other two
\* stores are not modified.
C17_DeleteById ==
    last.op = "delete_by_id" =>
        /\ last.variant \in {FILE_NAME_READY, FILE_NAME_WAITING}
        /\ read_tasks(fs, last.variant).val
               = SelectSeq(read_tasks(pre, last.variant).val, LAMBDA t : t.id # last.arg)
        /\ last.arg \notin IdsOf(read_tasks(fs, last.variant).val)
        /\ last.arg \notin IdsOf(read_tasks(pre, last.variant).val) =>
               read_tasks(fs, last.variant).val = read_tasks(pre, last.variant).val
        /\ \A s \in Stores \ {last.variant} : fs[path(s)] = pre[path(s)]

C17_Witness ==
    /\ last.op = "delete_by_id"
    /\ last.variant = FILE_NAME_WAITING
    /\ Len(PreWaiting) = 3
    /\ Len(Waiting) = 1
    /\ PreWaiting[2] = Waiting[1]

-----------------------------------------------------------------------------
(* Properties of wait and back step by step *)

Moving(p) == proc[p].cmd \in MoveCmds

InReady(id) == id \in IdsOf(Ready)

InWaiting(id) == id \in IdsOf(Waiting)

\* the task was in exactly one of Ready and Waiting when the command started
WasInOne(p) ==
    (proc[p].self.id \in IdsOf(snap.ready)) # (proc[p].self.id \in IdsOf(snap.waiting))

\* the process died after its first store function had published and before
\* the second did
DiedBetween(p) ==
    /\ Moving(p)
    /\ \/ proc[p].pc = "killed"
       \/ proc[p].pc = "crashed" /\ proc[p].step = 2

C18_NeverInBoth ==
    \A p \in Procs : (Moving(p) /\ WasInOne(p)) =>
        /\ ~(InReady(proc[p].self.id) /\ InWaiting(proc[p].self.id))
        /\ (proc[p].cmd = "wait" /\ InWaiting(proc[p].self.id)) =>
            (proc[p].step = 2 /\ proc[p].pc = "done")
        /\ (proc[p].cmd = "back" /\ InReady(proc[p].self.id)) =>
            (proc[p].step = 2 /\ proc[p].pc = "done")
        /\ (proc[p].step = 2 /\ proc[p].pc # "done") =>
            (~InReady(proc[p].self.id) /\ ~InWaiting(proc[p].self.id))

C18_Witness ==
    \E p \in Procs :
        /\ proc[p].cmd = "back"
        /\ WasInOne(p)
        /\ proc[p].step = 2
        /\ proc[p].pc = "write"
        /\ proc[p].off >= 1
        /\ fs[tmp_path(FILE_NAME_READY, p)] # <<>>
        /\ ~InReady(proc[p].self.id)
        /\ ~InWaiting(proc[p].self.id)
        /\ Len(Ready) >= 1

=============================================================================
